---- MODULE Spec2Model ----
(***************************************************************************)
(* A model of ip-geo-tool.py: the IP validator, the geolocation and        *)
(* enrichment clients, the terminal renderer, the CSV/JSON/HTML exporters  *)
(* and the orchestration in main.                                          *)
(*                                                                         *)
(* Text is modelled by TLA+ strings (Len, \o, SubSeq act on them as on     *)
(* Python's str).  Only the visible text of a printed line is kept: the    *)
(* ANSI colour sequences of class Colors have no visible width, and the    *)
(* box-drawing characters are written with ASCII stand-ins of the same     *)
(* width ("|" for the vertical bar, "-" for the horizontal bar, "+" for    *)
(* the corners and tees).                                                  *)
(***************************************************************************)
EXTENDS Integers, Sequences, FiniteSets, TLC

VARIABLES
    pc,               \* position of the run (or of the function under study)
    args,             \* the parsed command line (argparse namespace)
    ip,               \* main's local `ip`
    ip_info,          \* the geolocation record (a dict)
    additional_info,  \* the enrichment record (a dict), or None
    response,         \* what the country-data service answers
    columns,          \* os.get_terminal_size().columns
    exitCode,         \* process exit status, -1 while running
    events,           \* the requests, validations and renderer calls so far, in order
    stdout,           \* the visible lines printed so far
    files,            \* the files written so far
    candidate,        \* the string handed to validate_ip
    valid             \* validate_ip's result

vars == <<pc, args, ip, ip_info, additional_info, response, columns,
          exitCode, events, stdout, files, candidate, valid>>

(***************************************************************************)
(* Characters and strings                                                  *)
(***************************************************************************)
At(s, i) == IF 1 <= i /\ i <= Len(s) THEN SubSeq(s, i, i) ELSE ""

DecDigits == {"0", "1", "2", "3", "4", "5", "6", "7", "8", "9"}
OctDigits == {"0", "1", "2", "3", "4", "5", "6", "7"}
HexDigits == DecDigits \cup {"a", "b", "c", "d", "e", "f", "A", "B", "C", "D", "E", "F"}
Whitespace == {" ", "\t", "\n", "\r", "\f"}

DigitVal(c) ==
    CASE c = "0" -> 0 [] c = "1" -> 1 [] c = "2" -> 2 [] c = "3" -> 3
      [] c = "4" -> 4 [] c = "5" -> 5 [] c = "6" -> 6 [] c = "7" -> 7
      [] c = "8" -> 8 [] c = "9" -> 9
      [] c \in {"a", "A"} -> 10 [] c \in {"b", "B"} -> 11
      [] c \in {"c", "C"} -> 12 [] c \in {"d", "D"} -> 13
      [] c \in {"e", "E"} -> 14 [] c \in {"f", "F"} -> 15
      [] OTHER -> 0

Min(a, b) == IF a <= b THEN a ELSE b
Max(a, b) == IF a >= b THEN a ELSE b

RECURSIVE Spaces(_)
\* ' ' * n : the empty string when n <= 0
Spaces(n) == IF n <= 0 THEN "" ELSE " " \o Spaces(n - 1)

RECURSIVE Dashes(_)
\* the horizontal bar repeated n times
Dashes(n) == IF n <= 0 THEN "" ELSE "-" \o Dashes(n - 1)

(***************************************************************************)
(* Python values.  Every value is a record of the same four fields, so any *)
(* two values can be compared: t is the type, s the text of a str (or the  *)
(* repr of a float), n the number of an int (1/0 for a bool), m the items  *)
(* of a dict, in insertion order, as <<key, value>> pairs (a list keeps    *)
(* its elements as pairs with an empty key).                               *)
(***************************************************************************)
Val(t, s, n, m) == [t |-> t, s |-> s, n |-> n, m |-> m]

PyNone == Val("none", "", 0, <<>>)
PyStr(s) == Val("str", s, 0, <<>>)
PyInt(n) == Val("int", "", n, <<>>)
PyFloat(repr) == Val("float", repr, 0, <<>>)
PyBool(b) == Val("bool", "", IF b THEN 1 ELSE 0, <<>>)
PyDict(items) == Val("dict", "", 0, items)
PyList(elems) == Val("list", "", 0, [i \in 1..Len(elems) |-> <<"", elems[i]>>])
EmptyDict == PyDict(<<>>)

\* bool(v): what `if v` and `not v` test
Truthy(v) ==
    CASE v.t = "none" -> FALSE
      [] v.t = "str" -> v.s # ""
      [] v.t = "int" -> v.n # 0
      [] v.t = "bool" -> v.n = 1
      [] v.t = "float" -> v.s \notin {"0.0", "-0.0"}
      [] OTHER -> v.m # <<>>

\* `k in d`
HasKey(d, k) == \E i \in 1..Len(d.m) : d.m[i][1] = k

\* d[k] for a key that is present
Item(d, k) == d.m[CHOOSE i \in 1..Len(d.m) : d.m[i][1] = k][2]

\* d.get(k, default)
GetOr(d, k, default) == IF HasKey(d, k) THEN Item(d, k) ELSE default

\* d.get(k)
Get(d, k) == GetOr(d, k, PyNone)

\* d[k] = v : in place when the key exists, appended otherwise
SetItem(d, k, v) ==
    IF HasKey(d, k)
    THEN PyDict([i \in 1..Len(d.m) |-> IF d.m[i][1] = k THEN <<k, v>> ELSE d.m[i]])
    ELSE PyDict(Append(d.m, <<k, v>>))

\* list(d.keys())
Keys(d) == [i \in 1..Len(d.m) |-> d.m[i][1]]

RECURSIVE NatToStr(_)
NatToStr(n) ==
    IF n < 10 THEN SubSeq("0123456789", n + 1, n + 1)
    ELSE NatToStr(n \div 10) \o SubSeq("0123456789", (n % 10) + 1, (n % 10) + 1)

\* str(n) of an int
IntToStr(n) == IF n < 0 THEN "-" \o NatToStr(0 - n) ELSE NatToStr(n)

RECURSIVE NatWithCommas(_)
NatWithCommas(n) ==
    IF n < 1000 THEN NatToStr(n)
    ELSE LET r == n % 1000
             pad == IF r < 10 THEN "00" ELSE IF r < 100 THEN "0" ELSE ""
         IN NatWithCommas(n \div 1000) \o "," \o pad \o NatToStr(r)

\* f"{n:,}" of an int
IntWithCommas(n) == IF n < 0 THEN "-" \o NatWithCommas(0 - n) ELSE NatWithCommas(n)

\* str(v), as an f-string field or csv.writer writes a scalar
ToStr(v) ==
    CASE v.t = "str" -> v.s
      [] v.t = "float" -> v.s
      [] v.t = "int" -> IntToStr(v.n)
      [] v.t = "bool" -> (IF v.n = 1 THEN "True" ELSE "False")
      [] v.t = "none" -> "None"
      [] OTHER -> "{...}"

RECURSIVE Join(_, _)
\* sep.join(parts)
Join(sep, parts) ==
    IF parts = <<>> THEN ""
    ELSE IF Len(parts) = 1 THEN parts[1]
         ELSE parts[1] \o sep \o Join(sep, Tail(parts))

(***************************************************************************)
(* validate_ip: socket.inet_aton succeeds or raises socket.error.          *)
(* inet_aton is the C library's: up to four parts separated by dots, each  *)
(* read by strtoul with base 0 (0x.. hexadecimal, 0.. octal, else          *)
(* decimal), the last part filling the remaining bytes, and anything after *)
(* a white-space character ignored.  A 32-bit value is kept as hi * 2^16 + *)
(* lo, hi saturating at 2^16 (the value no longer fits 32 bits).           *)
(***************************************************************************)
Half == 65536

DigitsOf(base) == IF base = 16 THEN HexDigits ELSE IF base = 8 THEN OctDigits ELSE DecDigits

RECURSIVE Strtoul(_, _, _, _, _)
\* reads base-`base` digits of s from position i on; the value so far is hi, lo
Strtoul(s, i, base, hi, lo) ==
    IF At(s, i) \in DigitsOf(base)
    THEN LET l == lo * base + DigitVal(At(s, i))
             h == Min(Half, hi * base + (l \div Half))
         IN Strtoul(s, i + 1, base, h, l % Half)
    ELSE [hi |-> hi, lo |-> lo, end |-> i]

\* strtoul(cp, &endp, 0) at position i
StrtoulBase0(s, i) ==
    IF At(s, i) = "0" /\ At(s, i + 1) \in {"x", "X"} /\ At(s, i + 2) \in HexDigits
    THEN Strtoul(s, i + 2, 16, 0, 0)
    ELSE IF At(s, i) = "0"
         THEN Strtoul(s, i, 8, 0, 0)
         ELSE Strtoul(s, i, 10, 0, 0)

\* the largest value the last part may have after `n` leading parts
FitsLast(n, v) ==
    CASE n = 0 -> v.hi < Half
      [] n = 1 -> v.hi < 256
      [] n = 2 -> v.hi = 0
      [] OTHER -> v.hi = 0 /\ v.lo < 256

RECURSIVE InetAtonFrom(_, _, _)
\* the loop of inet_aton: position i, n parts stored so far
InetAtonFrom(s, i, n) ==
    IF At(s, i) \notin DecDigits THEN FALSE
    ELSE LET v == StrtoulBase0(s, i)
             c == At(s, v.end)
         IN IF v.hi >= Half THEN FALSE
            ELSE IF c = "."
                 THEN IF n >= 3 \/ v.hi > 0 \/ v.lo > 255 THEN FALSE
                      ELSE InetAtonFrom(s, v.end + 1, n + 1)
                 ELSE IF c # "" /\ c \notin Whitespace THEN FALSE
                      ELSE FitsLast(n, v)

inet_aton_lenient(s) == InetAtonFrom(s, 1, 0)

validate_ip(s) == inet_aton_lenient(s)

(***************************************************************************)
(* get_additional_info.  The country-data service's answer is a record:    *)
(* net is how urlopen ended ("ok", or the exception it raised), parses     *)
(* whether json.loads accepts the body, data the parsed JSON value.        *)
(* The body of the try block runs statement by statement; the first        *)
(* statement that raises ends it, and what was stored in additional_info   *)
(* before that stays.                                                      *)
(***************************************************************************)
Answer(net, parses, data) == [net |-> net, parses |-> parses, data |-> data]

\* x[0]: the first element of a non-empty list, the first character of a
\* non-empty str; anything else raises (IndexError, KeyError, TypeError)
CanIndex0(x) == (x.t = "list" /\ x.m # <<>>) \/ (x.t = "str" /\ x.s # "")
Index0(x) == IF x.t = "list" THEN x.m[1][2] ELSE PyStr(SubSeq(x.s, 1, 1))

\* len(x) is defined for these types only
HasLen(x) == x.t \in {"list", "dict", "str"}

\* what capital[0] raises, "none" when it can be taken
Index0Error(x) ==
    CASE CanIndex0(x) -> "none"
      [] x.t \in {"list", "str"} -> "IndexError"
      [] x.t = "dict" -> "KeyError"
      [] OTHER -> "TypeError"

\* lines 104-110: the seven assignments, in order, each with the exception
\* it raises on this country ("none": it completes) and the value it stores
ExtractSteps(country) ==
    LET capital == GetOr(country, "capital", PyList(<<PyStr("")>>))
        flags == GetOr(country, "flags", EmptyDict)
    IN <<
        [key |-> "population", exc |-> "none", val |-> Get(country, "population")],
        [key |-> "capital", exc |-> Index0Error(capital),
         val |-> IF CanIndex0(capital) THEN Index0(capital) ELSE PyNone],
        [key |-> "currencies", exc |-> "none", val |-> GetOr(country, "currencies", EmptyDict)],
        [key |-> "languages", exc |-> "none", val |-> GetOr(country, "languages", EmptyDict)],
        [key |-> "flag", exc |-> IF flags.t = "dict" THEN "none" ELSE "AttributeError",
         val |-> IF flags.t = "dict" THEN GetOr(flags, "png", PyStr("")) ELSE PyNone],
        [key |-> "region", exc |-> "none", val |-> Get(country, "region")],
        [key |-> "subregion", exc |-> "none", val |-> Get(country, "subregion")]
    >>

RECURSIVE RunSteps(_, _, _)
\* runs steps[i..] on the dict acc until one raises
RunSteps(steps, i, acc) ==
    IF i > Len(steps) THEN [value |-> acc, exc |-> "none"]
    ELSE IF steps[i].exc # "none" THEN [value |-> acc, exc |-> steps[i].exc]
         ELSE RunSteps(steps, i + 1, SetItem(acc, steps[i].key, steps[i].val))

\* lines 97-110, the body of the try block: the dict as it stands when the
\* block ends, and the exception that ended it ("none": it ran to its end)
EnrichTryBody(answer) ==
    LET raised(e) == [value |-> EmptyDict, exc |-> e]
        country_data == answer.data
    IN IF answer.net # "ok" THEN raised(answer.net)
       ELSE IF ~answer.parses THEN raised("JSONDecodeError")
       ELSE IF ~Truthy(country_data) THEN raised("none")
       ELSE IF ~HasLen(country_data) THEN raised("TypeError")
       ELSE IF country_data.t = "dict" THEN raised("KeyError")
       ELSE LET country == Index0(country_data)
            IN IF country.t # "dict" THEN raised("AttributeError")
               ELSE RunSteps(ExtractSteps(country), 1, EmptyDict)

\* the exceptions that are not subclasses of Exception
BaseOnly == {"KeyboardInterrupt", "SystemExit"}

\* a handler written `except URLError`, as the other two clients have it
EnrichCatches_UrlErrorOnly(exc) == exc \in {"URLError", "HTTPError"}

\* line 111, `except Exception`: the exceptions the handler catches
EnrichCatches(exc) == exc \notin BaseOnly

\* get_additional_info(ip_info), the service answering `answer` if asked:
\* the dict returned, or the exception that leaves the function
get_additional_info(info, answer) ==
    IF ~HasKey(info, "countryCode") THEN [value |-> EmptyDict, exc |-> "none"]
    ELSE LET r == EnrichTryBody(answer)
         IN IF r.exc = "none" \/ EnrichCatches(r.exc)
            THEN [value |-> r.value, exc |-> "none"]
            ELSE r

\* the request issued without the test of line 95
EnrichRequests_Always(info) == TRUE

\* line 95: the request is issued only for a record with a country code
EnrichRequests(info) == HasKey(info, "countryCode")

\* whether the lookup fails on this answer: the try block raises
EnrichFails(answer) == EnrichTryBody(answer).exc # "none"

(***************************************************************************)
(* textwrap.fill(text, width).split('\n') with TextWrapper's defaults, for *)
(* text without tabs, newlines or hyphenated words: the text is cut into   *)
(* chunks (words and runs of spaces), lines are filled greedily, leading   *)
(* and trailing blank chunks of a line are dropped, and a word longer than *)
(* the width is broken where the line ends.                                *)
(***************************************************************************)
IsBlank(chunk) == chunk # "" /\ \A i \in 1..Len(chunk) : At(chunk, i) = " "

RECURSIVE ChunksFrom(_, _, _)
\* TextWrapper._split: cur is the chunk being read
ChunksFrom(text, i, cur) ==
    IF i > Len(text) THEN (IF cur = "" THEN <<>> ELSE <<cur>>)
    ELSE LET c == At(text, i)
         IN IF cur = "" \/ ((c = " ") <=> IsBlank(cur))
            THEN ChunksFrom(text, i + 1, cur \o c)
            ELSE <<cur>> \o ChunksFrom(text, i + 1, c)

RECURSIVE SumLen(_)
SumLen(chunks) == IF chunks = <<>> THEN 0 ELSE Len(chunks[1]) + SumLen(Tail(chunks))

RECURSIVE FillLine(_, _, _)
\* the inner loop of _wrap_chunks: chunks are moved to cur while they fit
FillLine(chunks, cur, width) ==
    IF chunks # <<>> /\ SumLen(cur) + Len(chunks[1]) <= width
    THEN FillLine(Tail(chunks), Append(cur, chunks[1]), width)
    ELSE [cur |-> cur, rest |-> chunks]

\* _handle_long_word, break_long_words being true
HandleLongWord(f, width) ==
    IF f.rest # <<>> /\ Len(f.rest[1]) > width
    THEN LET space_left == IF width < 1 THEN 1 ELSE width - SumLen(f.cur)
             chunk == f.rest[1]
         IN [cur |-> Append(f.cur, SubSeq(chunk, 1, space_left)),
             rest |-> <<SubSeq(chunk, space_left + 1, Len(chunk))>> \o Tail(f.rest)]
    ELSE f

DropLastBlank(cur) ==
    IF cur # <<>> /\ IsBlank(cur[Len(cur)]) THEN SubSeq(cur, 1, Len(cur) - 1) ELSE cur

RECURSIVE WrapChunks(_, _, _)
\* _wrap_chunks: `started` once a line has been produced
WrapChunks(chunks, width, started) ==
    IF chunks = <<>> THEN <<>>
    ELSE LET cs == IF started /\ IsBlank(chunks[1]) THEN Tail(chunks) ELSE chunks
             f == HandleLongWord(FillLine(cs, <<>>, width), width)
             cur == DropLastBlank(f.cur)
         IN IF cur # <<>>
            THEN <<Join("", cur)>> \o WrapChunks(f.rest, width, TRUE)
            ELSE WrapChunks(f.rest, width, started)

\* textwrap.fill(text, width).split('\n'), for width > 0
FillSplit(text, width) ==
    LET lines == WrapChunks(ChunksFrom(text, 1, ""), width, FALSE)
    IN IF lines = <<>> THEN <<"">> ELSE lines

RECURSIVE RemoveAll(_, _)
\* s.replace(old, ''), old not empty
RemoveAll(s, old) ==
    IF Len(s) < Len(old) THEN s
    ELSE IF SubSeq(s, 1, Len(old)) = old
         THEN RemoveAll(SubSeq(s, Len(old) + 1, Len(s)), old)
         ELSE SubSeq(s, 1, 1) \o RemoveAll(SubSeq(s, 2, Len(s)), old)

(***************************************************************************)
(* display_ip_info.  A printed line is a record: kind tells where it       *)
(* belongs ("error", "header", "box" for the lines from the top border to  *)
(* the bottom border, "trailer"), text is its visible text.                *)
(***************************************************************************)
Line(kind, text) == [kind |-> kind, text |-> text]
Box(text) == Line("box", text)

\* datetime.now().strftime("%Y-%m-%d %H:%M:%S"): always 19 characters
Now == "2024-01-01 12:00:00"

\* line 134
BoxWidth(cols) == Min(80, cols - 4)

\* lines 144-155 and 465-476: city, regionName, country (countryCode)
LocationOf(info) ==
    LET city == IF Truthy(Get(info, "city")) THEN <<ToStr(Item(info, "city"))>> ELSE <<>>
        region == IF Truthy(Get(info, "regionName"))
                  THEN <<ToStr(Item(info, "regionName"))>> ELSE <<>>
        country == IF Truthy(Get(info, "country"))
                   THEN IF Truthy(Get(info, "countryCode"))
                        THEN <<ToStr(Item(info, "country")) \o " ("
                               \o ToStr(Item(info, "countryCode")) \o ")">>
                        ELSE <<ToStr(Item(info, "country"))>>
                   ELSE <<>>
    IN Join(", ", city \o region \o country)

\* a row "| <label> <value><pad> |", the pad being width - base - len(value)
Row(label, value, base, width) ==
    Box("| " \o label \o " " \o value \o Spaces(width - base - Len(value)) \o " |")

\* a continuation row "|<indent><line><pad> |"
ContRow(indent, line, base, width) ==
    Box("|" \o Spaces(indent) \o line \o Spaces(width - base - Len(line)) \o " |")

\* a wrapped field: its first row, then its continuation rows
WrappedRows(label, text, wrapAt, base, indent, contBase, width) ==
    LET lines == FillSplit(text, wrapAt)
    IN <<Row(label, lines[1], base, width)>>
       \o [i \in 1..(Len(lines) - 1) |-> ContRow(indent, lines[i + 1], contBase, width)]

\* a section: separator, heading, separator (lines 212-214 and 268-270)
Heading(title, base, width) ==
    << Box("+" \o Dashes(width - 2) \o "+"),
       Box("| " \o title \o Spaces(width - base) \o " |"),
       Box("+" \o Dashes(width - 2) \o "+") >>

\* lines 160-207: the rows of the location block
LocationRows(info, width) ==
    LET opt(cond, rows) == IF cond THEN rows ELSE <<>>
        time_display == "Local Time: " \o Now \o " (Approx. based on timezone)"
        time_lines == FillSplit(time_display, width - 4)
        offset == Get(info, "offset")
    IN <<Row("Location:", LocationOf(info), 11, width)>>
       \o opt(Truthy(Get(info, "continent")),
              <<Row("Continent:",
                    ToStr(Get(info, "continent")) \o " ("
                      \o ToStr(GetOr(info, "continentCode", PyStr(""))) \o ")",
                    12, width)>>)
       \o opt(Truthy(Get(info, "district")),
              <<Row("District:", ToStr(Get(info, "district")), 11, width)>>)
       \o opt(HasKey(info, "lat") /\ HasKey(info, "lon"),
              <<Row("Coordinates:",
                    ToStr(Get(info, "lat")) \o ", " \o ToStr(Get(info, "lon")),
                    14, width)>>)
       \o opt(Truthy(Get(info, "zip")),
              <<Row("Postal Code:", ToStr(Get(info, "zip")), 14, width)>>)
       \o opt(Truthy(Get(info, "timezone")),
              <<Row("Timezone:", ToStr(Get(info, "timezone")), 11, width)>>)
       \o opt(offset # PyNone,
              <<Row("Time Offset:",
                    "UTC " \o (IF offset.n >= 0 THEN "+" ELSE "") \o ToStr(offset),
                    14, width)>>)
       \o opt(HasKey(info, "timezone"),
              [i \in 1..Len(time_lines) |->
                 IF i = 1
                 THEN Box("| Local Time: " \o RemoveAll(time_lines[1], "Local Time: ")
                          \o Spaces(width - 12 - Len(time_lines[1]) + Len("Local Time: "))
                          \o " |")
                 ELSE ContRow(2, time_lines[i], 4, width)])

YesNo(v) == IF Truthy(v) THEN "Yes" ELSE "No"

\* a flag tested for truth, as the text fields are
FlagShown_IfTruthy(v) == Truthy(v)

\* lines 217, 221, 225 and 514, 522, 530: `ip_info.get(flag) is not None`
FlagShown(v) == v # PyNone

\* lines 239-246 and 425-430: "code (name)" for each currency
CurrencyList(currencies) ==
    [i \in 1..Len(currencies.m) |->
        LET code == currencies.m[i][1]
            cinfo == currencies.m[i][2]
        IN IF cinfo.t = "dict" /\ HasKey(cinfo, "name")
           THEN code \o " (" \o ToStr(Item(cinfo, "name")) \o ")"
           ELSE code]

\* lines 255-259 and 440-442: "name (code)" for each language
LanguageList(languages) ==
    [i \in 1..Len(languages.m) |->
        ToStr(languages.m[i][2]) \o " (" \o languages.m[i][1] \o ")"]

\* line 210-211: whether the Additional Information block is printed
HasAdditional(info, extra) ==
    \/ Get(info, "proxy") # PyNone
    \/ Get(info, "hosting") # PyNone
    \/ Get(info, "mobile") # PyNone
    \/ Truthy(extra)

\* lines 209-265: the Additional Information block
AdditionalRows(info, extra, width) ==
    LET opt(cond, rows) == IF cond THEN rows ELSE <<>>
        has(k) == Truthy(extra) /\ Truthy(Get(extra, k))
    IN opt(HasAdditional(info, extra),
           Heading("Additional Information", 23, width)
           \o opt(FlagShown(Get(info, "proxy")),
                  <<Row("Using Proxy:", YesNo(Get(info, "proxy")), 15, width)>>)
           \o opt(FlagShown(Get(info, "hosting")),
                  <<Row("Hosting/DC:", YesNo(Get(info, "hosting")), 13, width)>>)
           \o opt(FlagShown(Get(info, "mobile")),
                  <<Row("Mobile Network:", YesNo(Get(info, "mobile")), 17, width)>>)
           \o opt(has("population"),
                  <<Row("Country Population:", IntWithCommas(Get(extra, "population").n),
                        21, width)>>)
           \o opt(has("capital"),
                  <<Row("Capital:", ToStr(Get(extra, "capital")), 10, width)>>)
           \o opt(has("currencies"),
                  WrappedRows("Currencies:", Join(", ", CurrencyList(Get(extra, "currencies"))),
                              width - 13, 13, 12, 12, width))
           \o opt(has("languages"),
                  WrappedRows("Languages:", Join(", ", LanguageList(Get(extra, "languages"))),
                              width - 13, 12, 12, 12, width)))

\* lines 267-316: the Network Information block
NetworkRows(info, width) ==
    LET opt(cond, rows) == IF cond THEN rows ELSE <<>>
        field(k, label, wrapAt, base, indent) ==
            opt(Truthy(Get(info, k)),
                WrappedRows(label, ToStr(Get(info, k)), wrapAt, base, indent, base, width))
    IN Heading("Network Information", 21, width)
       \o field("reverse", "Reverse DNS:", width - 15, 14, 14)
       \o field("isp", "ISP:", width - 8, 6, 6)
       \o field("org", "ORG:", width - 8, 6, 6)
       \o field("as", "AS: ", width - 8, 6, 6)
       \o field("asname", "AS Name:", width - 14, 10, 10)

\* lines 321-328: the two lines after the box
TrailerLines(info, extra) ==
    LET lat == ToStr(Get(info, "lat"))
        lon == ToStr(Get(info, "lon"))
    IN (IF HasKey(info, "lat") /\ HasKey(info, "lon")
        THEN <<Line("trailer", ""),
               Line("trailer", "View on map: https://www.openstreetmap.org/?mlat=" \o lat
                     \o "&mlon=" \o lon \o "#map=12/" \o lat \o "/" \o lon)>>
        ELSE <<>>)
       \o (IF Truthy(extra) /\ Truthy(Get(extra, "flag"))
           THEN <<Line("trailer", "Country flag: " \o ToStr(Get(extra, "flag")))>>
           ELSE <<>>)

\* len(Colors.BG_BLUE + Colors.BOLD + Colors.ENDC): 13 characters, none
\* once --simple has emptied the colours (lines 707-710)
ColourLen(simple) == IF simple THEN 0 ELSE 13

\* lines 136-141: the banner with the address
HeaderLines(info, width, simple) ==
    LET ip_header == "  IP: " \o ToStr(Item(info, "query")) \o "  "
        pad_length == width - Len(ip_header) + ColourLen(simple)
    IN << Line("header", ""), Line("header", Spaces(width)),
          Line("header", ip_header \o Spaces(pad_length)),
          Line("header", Spaces(width)), Line("header", "") >>

\* display_ip_info(ip_info, additional_info) on a terminal `cols` wide,
\* with or without colours: the lines it prints
display_ip_info(info, extra, cols, simple) ==
    IF Get(info, "status") # PyStr("success")
    THEN <<Line("error", "Error: " \o ToStr(GetOr(info, "message", PyStr("Unknown error"))))>>
    ELSE LET width == BoxWidth(cols)
         IN HeaderLines(info, width, simple)
            \o <<Box("+" \o Dashes(width - 2) \o "+")>>
            \o LocationRows(info, width)
            \o AdditionalRows(info, extra, width)
            \o NetworkRows(info, width)
            \o <<Box("+" \o Dashes(width - 2) \o "+")>>
            \o TrailerLines(info, extra)

(***************************************************************************)
(* The exporters.  A written file is a record: path, format and content.   *)
(***************************************************************************)
File(path, format, content) == [path |-> path, format |-> format, content |-> content]

\* lines 332-339: the object export_to_json hands to json.dump
JsonData(info, extra) ==
    LET withExtra == IF Truthy(extra) THEN SetItem(info, "additional_info", extra) ELSE info
    IN SetItem(withExtra, "timestamp", PyStr(Now))

export_to_json(info, extra, path) == File(path, "json", JsonData(info, extra))

\* line 355: a mapping flattened to "k: v" for a str value, "k" otherwise
FlatValue(d) ==
    Join(", ", [i \in 1..Len(d.m) |->
                  IF d.m[i][2].t = "str"
                  THEN d.m[i][1] \o ": " \o d.m[i][2].s
                  ELSE d.m[i][1]])

RECURSIVE FlattenInto(_, _, _)
\* lines 352-358: the loop over additional_info.items(), from item i on
FlattenInto(flat, extra, i) ==
    IF i > Len(extra.m) THEN flat
    ELSE LET key == extra.m[i][1]
             value == extra.m[i][2]
         IN FlattenInto(SetItem(flat, "additional_" \o key,
                                IF value.t = "dict" THEN PyStr(FlatValue(value)) ELSE value),
                        extra, i + 1)

\* lines 349-361: flat_data
FlatData(info, extra) ==
    LET flat == IF Truthy(extra) THEN FlattenInto(info, extra, 1) ELSE info
    IN SetItem(flat, "timestamp", PyStr(Now))

\* what csv.writer writes for a value: nothing for None, str(v) otherwise
CsvText(v) == IF v.t = "none" THEN "" ELSE ToStr(v)

NeedsQuote(cell) ==
    \E i \in 1..Len(cell) : At(cell, i) \in {",", "\"", "\r", "\n"}

RECURSIVE DoubleQuotes(_)
DoubleQuotes(cell) ==
    IF cell = "" THEN ""
    ELSE (IF At(cell, 1) = "\"" THEN "\"\"" ELSE At(cell, 1))
         \o DoubleQuotes(SubSeq(cell, 2, Len(cell)))

\* fields joined as they are, never quoted
CsvQuote_Never(cell) == cell

\* csv.QUOTE_MINIMAL: a field with a delimiter, a quote or a line break is
\* quoted, its quotes doubled
CsvQuote(cell) ==
    IF NeedsQuote(cell) THEN "\"" \o DoubleQuotes(cell) \o "\"" ELSE cell

\* one record as csv.writer writes it
CsvRecord(cells) == Join(",", [i \in 1..Len(cells) |-> CsvQuote(cells[i])]) \o "\r\n"

\* lines 363-366: DictWriter with fieldnames = flat_data.keys(): the header,
\* then the one row
CsvFileText(flat) ==
    LET fieldnames == Keys(flat)
    IN CsvRecord(fieldnames)
       \o CsvRecord([i \in 1..Len(fieldnames) |-> CsvText(Item(flat, fieldnames[i]))])

export_to_csv(info, extra, path) == File(path, "csv", CsvFileText(FlatData(info, extra)))

\* lines 461-561: the rows of the main table, as <<label, value>>
HtmlInfoRows(info) ==
    LET opt(cond, rows) == IF cond THEN rows ELSE <<>>
        text(k, label) == opt(Truthy(Get(info, k)), <<<<label, ToStr(Get(info, k))>>>>)
        flag(k, label) == opt(FlagShown(Get(info, k)), <<<<label, YesNo(Get(info, k))>>>>)
    IN << <<"IP Address", ToStr(GetOr(info, "query", PyStr("N/A")))>>,
          <<"Location", LocationOf(info)>> >>
       \o opt(Truthy(Get(info, "continent")),
              << <<"Continent", ToStr(Get(info, "continent")) \o " ("
                                 \o ToStr(GetOr(info, "continentCode", PyStr(""))) \o ")">> >>)
       \o opt(HasKey(info, "lat") /\ HasKey(info, "lon"),
              << <<"Coordinates", ToStr(Get(info, "lat")) \o ", " \o ToStr(Get(info, "lon"))>> >>)
       \o text("timezone", "Timezone")
       \o flag("proxy", "Using Proxy")
       \o flag("hosting", "Hosting/DC")
       \o flag("mobile", "Mobile Network")
       \o text("isp", "ISP")
       \o text("org", "Organization")
       \o text("as", "AS")

\* lines 404-449: the rows of the demographic table
HtmlAdditionalRows(extra) ==
    LET opt(cond, rows) == IF cond THEN rows ELSE <<>>
        has(k) == Truthy(extra) /\ Truthy(Get(extra, k))
    IN opt(has("population"),
           << <<"Population", IntWithCommas(Get(extra, "population").n)>> >>)
       \o opt(has("capital"), << <<"Capital", ToStr(Get(extra, "capital"))>> >>)
       \o opt(has("currencies"),
              << <<"Currencies", Join(", ", CurrencyList(Get(extra, "currencies")))>> >>)
       \o opt(has("languages"),
              << <<"Languages", Join(", ", LanguageList(Get(extra, "languages")))>> >>)

\* lines 372-681: the parts of the document export_to_html writes
HtmlDocument(info, extra) ==
    [ title |-> "IP Geolocation: " \o ToStr(GetOr(info, "query", PyStr("Unknown IP"))),
      generated |-> Now,
      info_rows |-> HtmlInfoRows(info),
      additional_rows |-> HtmlAdditionalRows(extra),
      flag |-> IF Truthy(extra) /\ Truthy(Get(extra, "flag"))
               THEN ToStr(Get(extra, "flag")) ELSE "",
      map |-> IF HasKey(info, "lat") /\ HasKey(info, "lon")
              THEN ToStr(Get(info, "lat")) \o ", " \o ToStr(Get(info, "lon")) ELSE "" ]

export_to_html(info, extra, path) == File(path, "html", HtmlDocument(info, extra))

\* lines 344, 368, 686: the message every exporter prints after writing
ExportedLine(path) == Line("msg", "Data exported to " \o path)

\* lines 688-694: the browser question; `answer` is what the user types,
\* `opens` whether webbrowser.open succeeds
BrowserLines(path, answer, opens) ==
    <<Line("prompt", "Do you want to open the HTML report in your browser? (y/n): ")>>
    \o (IF answer \in {"y", "Y"} /\ ~opens
        THEN <<Line("msg", "Could not open browser automatically. Please open "
                           \o path \o " manually.")>>
        ELSE <<>>)

(***************************************************************************)
(* main.  A run goes through its blocking points one step at a time:       *)
(*   start -> resolve -> geo -> enrich -> render -> done                   *)
(* and ends in "done" (main returned), "exited" (sys.exit(1) or an         *)
(* uncaught exception, both with status 1) or "cancelled" (the             *)
(* KeyboardInterrupt handler, status 0).                                   *)
(***************************************************************************)
Event(type, name, arg, ok) == [type |-> type, name |-> name, arg |-> arg, ok |-> ok]

\* the answer slot before the country-data service has been asked
NoAnswer == Answer("unasked", FALSE, PyNone)

\* what the positional argument may be: absent, empty, a dotted quad, a
\* private address, and strings that are no dotted quad
ArgIps == {PyNone, PyStr(""), PyStr("8.8.8.8"), PyStr("192.168.1.1"),
           PyStr("1"), PyStr("abc"), PyStr("256.1.1.1")}

Formats == {"terminal", "json", "csv", "html"}

ArgSets == [ip : ArgIps, simple : BOOLEAN, detailed : BOOLEAN,
            format : Formats, output : {PyNone, PyStr("report.out")}]

\* the body the public-IP service returns
PublicIpBodies == {"203.0.113.7"}

TerminalColumns == {40, 64, 200}

\* the geolocation service's answers for `addr`: a failed lookup, a bare
\* success, a success with the baseline fields, and (detailed) with all
GeoFail(addr) ==
    PyDict(<< <<"status", PyStr("fail")>>, <<"message", PyStr("invalid query")>>,
              <<"query", PyStr(addr)>> >>)

GeoBare(addr) == PyDict(<< <<"status", PyStr("success")>>, <<"query", PyStr(addr)>> >>)

GeoBasic(addr) ==
    PyDict(<< <<"status", PyStr("success")>>, <<"country", PyStr("France")>>,
              <<"countryCode", PyStr("FR")>>, <<"region", PyStr("IDF")>>,
              <<"regionName", PyStr("Ile de France")>>, <<"city", PyStr("Paris")>>,
              <<"zip", PyStr("75001")>>, <<"lat", PyFloat("48.8566")>>,
              <<"lon", PyFloat("2.3522")>>, <<"timezone", PyStr("Europe/Paris")>>,
              <<"isp", PyStr("Acme, Inc.")>>, <<"org", PyStr("Acme \"Research\" Network")>>,
              <<"as", PyStr("AS64500 Acme, Inc.")>>, <<"query", PyStr(addr)>> >>)

GeoDetailed(addr) ==
    PyDict(GeoBasic(addr).m \o
           << <<"proxy", PyBool(FALSE)>>, <<"hosting", PyBool(TRUE)>>,
              <<"mobile", PyBool(FALSE)>>, <<"continent", PyStr("Europe")>>,
              <<"continentCode", PyStr("EU")>>, <<"district", PyStr("")>>,
              <<"asname", PyStr("ACME")>>, <<"reverse", PyStr("host.acme.example")>>,
              <<"offset", PyInt(3600)>> >>)

GeoRecords(addr, detailed) ==
    {GeoFail(addr), GeoBare(addr), GeoBasic(addr)}
    \cup (IF detailed THEN {GeoDetailed(addr)} ELSE {})

France ==
    PyDict(<< <<"population", PyInt(67391582)>>, <<"capital", PyList(<<PyStr("Paris")>>)>>,
              <<"currencies", PyDict(<< <<"EUR", PyDict(<< <<"name", PyStr("Euro")>>,
                                                          <<"symbol", PyStr("E")>> >>)>> >>)>>,
              <<"languages", PyDict(<< <<"fra", PyStr("French")>> >>)>>,
              <<"flags", PyDict(<< <<"png", PyStr("https://flagcdn.com/w320/fr.png")>> >>)>>,
              <<"region", PyStr("Europe")>>, <<"subregion", PyStr("Western Europe")>> >>)

\* the country-data service's answers in a run: the country, a country
\* with an empty capital list, no country, a body that is no country list,
\* a body that is no JSON, and a request that fails
MainAnswers ==
    { Answer("ok", TRUE, PyList(<<France>>)),
      Answer("ok", TRUE, PyList(<<SetItem(France, "capital", PyList(<<>>))>>)),
      Answer("ok", TRUE, PyList(<<>>)),
      Answer("ok", TRUE, PyDict(<< <<"status", PyInt(404)>> >>)),
      Answer("ok", FALSE, PyNone),
      Answer("HTTPError", FALSE, PyNone),
      Answer("URLError", FALSE, PyNone) }

Init ==
    /\ pc = "start"
    /\ args \in ArgSets
    /\ ip = PyNone
    /\ ip_info = PyNone
    /\ additional_info = PyNone
    /\ response = NoAnswer
    /\ columns = 0
    /\ exitCode = -1
    /\ events = <<>>
    /\ stdout = <<>>
    /\ files = <<>>
    /\ candidate = ""
    /\ valid = FALSE

\* the process ends with status 1 after printing `lines`: sys.exit(1) after
\* an error message (kind "fatal"), or an exception no handler catches and
\* its traceback (kind "traceback")
Exit1(lines) ==
    /\ stdout' = stdout \o lines
    /\ exitCode' = 1
    /\ pc' = "exited"

Fatal(text) == Line("fatal", text)
Traceback(exc) == Line("traceback", exc)

\* the check of line 713 made for the json format only
OutputMissing_JsonOnly(a) == a.format = "json" /\ ~Truthy(a.output)

\* line 713: a file format without an output path
OutputMissing(a) == a.format # "terminal" /\ ~Truthy(a.output)

\* the output file opened (and so created or emptied) where the path is
\* checked, before the lookups
CheckOutput_OpensOutput ==
    /\ pc = "start"
    /\ IF OutputMissing(args)
       THEN /\ Exit1(<<Fatal("Error: Output file must be specified with --output when using --format="
                            \o args.format)>>)
            /\ UNCHANGED files
       ELSE /\ stdout' = Append(stdout, Line("banner", "IP Geolocation Tool v1.1"))
            /\ files' = IF Truthy(args.output)
                        THEN Append(files, File(args.output.s, args.format, ""))
                        ELSE files
            /\ pc' = "resolve"
            /\ UNCHANGED exitCode
    /\ UNCHANGED <<args, ip, ip_info, additional_info, response, columns, events,
                   candidate, valid>>

\* lines 706-718: the colour switch, the output-path check, the banner
CheckOutput ==
    /\ pc = "start"
    /\ IF OutputMissing(args)
       THEN Exit1(<<Fatal("Error: Output file must be specified with --output when using --format="
                        \o args.format)>>)
       ELSE /\ stdout' = Append(stdout, Line("banner", "IP Geolocation Tool v1.1"))
            /\ pc' = "resolve"
            /\ UNCHANGED exitCode
    /\ UNCHANGED <<args, ip, ip_info, additional_info, response, columns, events,
                   files, candidate, valid>>

\* lines 723-726 with get_public_ip (64-71): no address given
ResolvePublicIp ==
    /\ pc = "resolve"
    /\ ~Truthy(args.ip)
    /\ \E outcome \in {"ok", "URLError", "ConnectionResetError"} :
          /\ events' = Append(events, Event("request", "ipify", "", outcome = "ok"))
          /\ IF outcome = "ok"
             THEN \E body \in PublicIpBodies :
                     /\ ip' = PyStr(body)
                     /\ stdout' = stdout \o
                           << Line("msg", "No IP provided. Looking up your public IP..."),
                              Line("msg", "Your public IP: " \o body) >>
                     /\ pc' = "geo"
                     /\ UNCHANGED exitCode
             ELSE IF outcome = "URLError"
             THEN /\ Exit1(<< Line("msg", "No IP provided. Looking up your public IP..."),
                            Fatal("Unable to determine your public IP address. Check your internet connection.") >>)
                  /\ UNCHANGED ip
             ELSE /\ Exit1(<< Line("msg", "No IP provided. Looking up your public IP..."),
                            Traceback(outcome) >>)
                  /\ UNCHANGED ip
    /\ UNCHANGED <<args, ip_info, additional_info, response, columns, files,
                   candidate, valid>>

\* the error printed for an address validate_ip rejects, the exit left out
ValidateGivenIp_NoExit ==
    /\ pc = "resolve"
    /\ Truthy(args.ip)
    /\ candidate' = args.ip.s
    /\ valid' = validate_ip(args.ip.s)
    /\ events' = Append(events, Event("validate", "validate_ip", args.ip.s,
                                      validate_ip(args.ip.s)))
    /\ stdout' = IF validate_ip(args.ip.s) THEN stdout
                 ELSE Append(stdout, Fatal("Error: '" \o args.ip.s
                                           \o "' is not a valid IP address."))
    /\ ip' = args.ip
    /\ pc' = "geo"
    /\ UNCHANGED <<args, ip_info, additional_info, response, columns, files, exitCode>>

\* lines 727-729: an address given, validate_ip decides
ValidateGivenIp ==
    /\ pc = "resolve"
    /\ Truthy(args.ip)
    /\ candidate' = args.ip.s
    /\ valid' = validate_ip(args.ip.s)
    /\ events' = Append(events, Event("validate", "validate_ip", args.ip.s,
                                      validate_ip(args.ip.s)))
    /\ IF validate_ip(args.ip.s)
       THEN /\ ip' = args.ip
            /\ pc' = "geo"
            /\ UNCHANGED <<stdout, exitCode>>
       ELSE /\ Exit1(<<Fatal("Error: '" \o args.ip.s \o "' is not a valid IP address.")>>)
            /\ UNCHANGED ip
    /\ UNCHANGED <<args, ip_info, additional_info, response, columns, files>>

\* lines 731-732 with get_ip_info (73-88)
GetIpInfo ==
    /\ pc = "geo"
    /\ \E outcome \in {"ok", "URLError", "JSONDecodeError"} :
          /\ events' = Append(events, Event("request", "ip-api", ip.s, outcome = "ok"))
          /\ IF outcome = "ok"
             THEN \E rec \in GeoRecords(ip.s, args.detailed) :
                     /\ ip_info' = rec
                     /\ stdout' = Append(stdout, Line("msg", "Fetching geolocation data..."))
                     /\ pc' = IF args.detailed THEN "enrich" ELSE "render"
                     /\ UNCHANGED exitCode
             ELSE IF outcome = "URLError"
             THEN /\ Exit1(<< Line("msg", "Fetching geolocation data..."),
                            Fatal("Error connecting to the geolocation API. Check your internet connection.") >>)
                  /\ UNCHANGED ip_info
             ELSE /\ Exit1(<< Line("msg", "Fetching geolocation data..."),
                            Traceback(outcome) >>)
                  /\ UNCHANGED ip_info
    /\ UNCHANGED <<args, ip, additional_info, response, columns, files,
                   candidate, valid>>

\* lines 734-737 with get_additional_info (90-115)
Enrich ==
    /\ pc = "enrich"
    /\ \E answer \in (IF EnrichRequests(ip_info) THEN MainAnswers ELSE {NoAnswer}) :
          LET r == get_additional_info(ip_info, answer)
          IN /\ response' = answer
             /\ events' = IF EnrichRequests(ip_info)
                          THEN Append(events, Event("request", "restcountries",
                                                    ToStr(Get(ip_info, "countryCode")),
                                                    answer.net = "ok"))
                          ELSE events
             /\ IF r.exc = "none"
                THEN /\ additional_info' = r.value
                     /\ stdout' = Append(stdout,
                           Line("msg", "Fetching additional demographic information..."))
                     /\ pc' = "render"
                     /\ UNCHANGED exitCode
                ELSE /\ Exit1(<< Line("msg", "Fetching additional demographic information..."),
                               Traceback(r.exc) >>)
                     /\ UNCHANGED additional_info
    /\ UNCHANGED <<args, ip, ip_info, columns, files, candidate, valid>>

\* lines 739-747: the one renderer or exporter the format selects
Render ==
    /\ pc = "render"
    /\ events' = Append(events, Event("render", args.format, ToStr(Get(ip_info, "query")), TRUE))
    /\ CASE args.format = "terminal" ->
              \E cols \in TerminalColumns :
                 /\ columns' = cols
                 /\ stdout' = stdout \o display_ip_info(ip_info, additional_info, cols, args.simple)
                 /\ UNCHANGED files
         [] args.format = "json" ->
              /\ files' = Append(files, export_to_json(ip_info, additional_info, args.output.s))
              /\ stdout' = Append(stdout, ExportedLine(args.output.s))
              /\ UNCHANGED columns
         [] args.format = "csv" ->
              /\ files' = Append(files, export_to_csv(ip_info, additional_info, args.output.s))
              /\ stdout' = Append(stdout, ExportedLine(args.output.s))
              /\ UNCHANGED columns
         [] OTHER ->
              \E answer \in {"y", "n"}, opens \in BOOLEAN :
                 /\ files' = Append(files, export_to_html(ip_info, additional_info, args.output.s))
                 /\ stdout' = Append(stdout, ExportedLine(args.output.s))
                                \o BrowserLines(args.output.s, answer, opens)
                 /\ UNCHANGED columns
    /\ pc' = "done"
    /\ exitCode' = 0
    /\ UNCHANGED <<args, ip, ip_info, additional_info, response, candidate, valid>>

\* lines 750-754: Ctrl-C at any point of the run
Interrupt ==
    /\ pc \in {"start", "resolve", "geo", "enrich", "render"}
    /\ stdout' = Append(stdout, Line("msg", "Operation cancelled by user."))
    /\ exitCode' = 0
    /\ pc' = "cancelled"
    /\ UNCHANGED <<args, ip, ip_info, additional_info, response, columns, events,
                   files, candidate, valid>>

Next ==
    \/ CheckOutput
    \/ ResolvePublicIp
    \/ ValidateGivenIp
    \/ GetIpInfo
    \/ Enrich
    \/ Render
    \/ Interrupt

Spec == Init /\ [][Next]_vars

(***************************************************************************)
(* The enrichment client on its own: a geolocation record and an answer of *)
(* the country-data service are drawn, get_additional_info is applied.     *)
(***************************************************************************)
\* a field the provider leaves out
Absent == Val("absent", "", 0, <<>>)

\* a dict of the fields that are not left out, in the order given
DictOf(pairs) == PyDict(SelectSeq(pairs, LAMBDA kv : kv[2] # Absent))

Dollar == PyDict(<< <<"name", PyStr("US Dollar")>>, <<"symbol", PyStr("$")>> >>)
Euro == PyDict(<< <<"name", PyStr("Euro")>> >>)

\* country objects: every field present or left out, and for capital and
\* flags the shapes the provider may give them
Countries ==
    { DictOf(<< <<"population", p>>, <<"capital", c>>, <<"currencies", cur>>,
                <<"languages", l>>, <<"flags", f>>, <<"region", r>>, <<"subregion", sr>> >>) :
        p \in {Absent, PyInt(67391582)},
        c \in {Absent, PyList(<<PyStr("Paris")>>), PyList(<<>>), PyNone},
        cur \in {Absent, PyDict(<< <<"USD", Dollar>>, <<"EUR", Euro>> >>)},
        l \in {Absent, PyDict(<< <<"eng", PyStr("English")>>, <<"fra", PyStr("French")>> >>)},
        f \in {Absent, PyDict(<< <<"png", PyStr("https://flagcdn.com/w320/fr.png")>> >>),
               EmptyDict, PyStr("fr.png")},
        r \in {Absent, PyStr("Europe")},
        sr \in {Absent, PyStr("Western Europe")} }

EnrichAnswers ==
    { Answer("URLError", FALSE, PyNone), Answer("HTTPError", FALSE, PyNone),
      Answer("ok", FALSE, PyNone),
      Answer("ok", TRUE, PyNone), Answer("ok", TRUE, PyList(<<>>)),
      Answer("ok", TRUE, PyInt(404)),
      Answer("ok", TRUE, PyDict(<< <<"status", PyInt(404)>>, <<"message", PyStr("Not Found")>> >>)),
      Answer("ok", TRUE, PyStr("Not Found")),
      Answer("ok", TRUE, PyList(<<PyStr("France")>>)) }
    \cup { Answer("ok", TRUE, PyList(<<c>>)) : c \in Countries }

InitEnrich ==
    /\ pc = "input"
    /\ ip_info \in {GeoBare("8.8.8.8"), GeoBasic("8.8.8.8")}
    /\ response \in EnrichAnswers
    /\ additional_info = PyNone
    /\ events = <<>>
    /\ args = <<>> /\ ip = PyNone /\ columns = 0 /\ exitCode = -1
    /\ stdout = <<>> /\ files = <<>> /\ candidate = "" /\ valid = FALSE

\* additional_info = get_additional_info(ip_info)
EnrichCall ==
    /\ pc = "input"
    /\ LET r == get_additional_info(ip_info, response)
       IN /\ additional_info' = IF r.exc = "none" THEN r.value ELSE PyNone
          /\ pc' = IF r.exc = "none" THEN "returned" ELSE "raised"
    /\ events' = IF EnrichRequests(ip_info)
                 THEN <<Event("request", "restcountries",
                              ToStr(Get(ip_info, "countryCode")), response.net = "ok")>>
                 ELSE <<>>
    /\ UNCHANGED <<args, ip, ip_info, response, columns, exitCode, stdout, files,
                   candidate, valid>>

NextEnrich == EnrichCall

SpecEnrich == InitEnrich /\ [][NextEnrich]_vars

(***************************************************************************)
(* The CSV exporter on its own: a geolocation record and an enrichment     *)
(* record (as get_additional_info returns them, or None) are drawn,        *)
(* export_to_csv is applied.                                               *)
(***************************************************************************)
CsvRecords == {GeoFail("1"), GeoBare("8.8.8.8"), GeoBasic("8.8.8.8"), GeoDetailed("8.8.8.8")}

CsvExtras ==
    {PyNone} \cup {get_additional_info(GeoBasic("8.8.8.8"), a).value : a \in EnrichAnswers}

InitCsv ==
    /\ pc = "input"
    /\ ip_info \in CsvRecords
    /\ additional_info \in CsvExtras
    /\ files = <<>>
    /\ stdout = <<>>
    /\ args = <<>> /\ ip = PyNone /\ response = NoAnswer /\ columns = 0
    /\ exitCode = -1 /\ events = <<>> /\ candidate = "" /\ valid = FALSE

\* export_to_csv(ip_info, additional_info, "report.csv")
ExportCsv ==
    /\ pc = "input"
    /\ files' = <<export_to_csv(ip_info, additional_info, "report.csv")>>
    /\ stdout' = <<ExportedLine("report.csv")>>
    /\ pc' = "exported"
    /\ UNCHANGED <<args, ip, ip_info, additional_info, response, columns, exitCode,
                   events, candidate, valid>>

NextCsv == ExportCsv

SpecCsv == InitCsv /\ [][NextCsv]_vars

(***************************************************************************)
(* The terminal renderer on its own: a success record, an enrichment       *)
(* record and a terminal width are drawn, display_ip_info is applied.      *)
(***************************************************************************)
TriState == {Absent, PyBool(TRUE), PyBool(FALSE)}

LocationProfiles ==
    { <<>>,
      << <<"country", PyStr("France")>>, <<"timezone", PyStr("")>> >>,
      << <<"country", PyStr("United States")>>, <<"countryCode", PyStr("US")>>,
         <<"regionName", PyStr("District of Columbia")>>, <<"city", PyStr("Washington")>>,
         <<"zip", PyStr("20001")>>, <<"lat", PyFloat("38.8951")>>, <<"lon", PyFloat("-77.0364")>>,
         <<"timezone", PyStr("America/New_York")>>, <<"continent", PyStr("North America")>>,
         <<"continentCode", PyStr("NA")>>, <<"district", PyStr("Downtown")>> >> }

NetworkProfiles ==
    { <<>>,
      << <<"isp", PyStr("Acme, Inc.")>>,
         <<"org", PyStr("Acme Research and Education Network Operations Centre of the Northern Region")>>,
         <<"as", PyStr("AS64500 Acme, Inc.")>>, <<"asname", PyStr("ACME")>>,
         <<"reverse", PyStr("host203.static.customers.northernregion.acme.example")>> >> }

DisplayRecords ==
    { PyDict(<< <<"status", PyStr("success")>> >> \o loc \o net
             \o DictOf(<< <<"proxy", p>>, <<"hosting", h>>, <<"mobile", m>>, <<"offset", o>> >>).m
             \o << <<"query", PyStr("203.0.113.7")>> >>) :
        loc \in LocationProfiles, net \in NetworkProfiles,
        p \in TriState, h \in TriState, m \in TriState,
        o \in {Absent, PyInt(0), PyInt(-18000)} }

DisplayExtras ==
    { PyNone, EmptyDict,
      get_additional_info(GeoBasic("8.8.8.8"), Answer("ok", TRUE, PyList(<<France>>))).value,
      get_additional_info(GeoBasic("8.8.8.8"),
          Answer("ok", TRUE, PyList(<<DictOf(<< <<"currencies",
              PyDict(<< <<"USD", Dollar>>, <<"EUR", Euro>>, <<"GBP", PyStr("Pound")>>,
                        <<"CHF", PyDict(<< <<"name", PyStr("Swiss franc")>> >>)>> >>)>> >>)>>))).value }

InitDisplay ==
    /\ pc = "input"
    /\ ip_info \in DisplayRecords
    /\ additional_info \in DisplayExtras
    /\ columns \in TerminalColumns
    /\ args \in [simple : BOOLEAN]
    /\ stdout = <<>>
    /\ ip = PyNone /\ response = NoAnswer /\ exitCode = -1 /\ events = <<>>
    /\ files = <<>> /\ candidate = "" /\ valid = FALSE

\* display_ip_info(ip_info, additional_info)
Display ==
    /\ pc = "input"
    /\ stdout' = display_ip_info(ip_info, additional_info, columns, args.simple)
    /\ pc' = "displayed"
    /\ UNCHANGED <<args, ip, ip_info, additional_info, response, columns, exitCode,
                   events, files, candidate, valid>>

NextDisplay == Display

SpecDisplay == InitDisplay /\ [][NextDisplay]_vars

(***************************************************************************)
(* The terminal renderer and the HTML exporter on the same record: a       *)
(* success record and an enrichment record are drawn, display_ip_info is   *)
(* applied, then export_to_html.                                           *)
(***************************************************************************)
ReportExtras ==
    { PyNone,
      get_additional_info(GeoBasic("8.8.8.8"), Answer("ok", TRUE, PyList(<<France>>))).value }

InitReport ==
    /\ pc = "input"
    /\ ip_info \in DisplayRecords
    /\ additional_info \in ReportExtras
    /\ columns \in TerminalColumns
    /\ args = [simple |-> TRUE]
    /\ stdout = <<>>
    /\ ip = PyNone /\ response = NoAnswer /\ exitCode = -1 /\ events = <<>>
    /\ files = <<>> /\ candidate = "" /\ valid = FALSE

\* display_ip_info(ip_info, additional_info)
ReportTerminal ==
    /\ pc = "input"
    /\ stdout' = display_ip_info(ip_info, additional_info, columns, args.simple)
    /\ pc' = "displayed"
    /\ UNCHANGED <<args, ip, ip_info, additional_info, response, columns, exitCode,
                   events, files, candidate, valid>>

\* export_to_html(ip_info, additional_info, "report.html")
ReportHtml ==
    /\ pc = "displayed"
    /\ files' = <<export_to_html(ip_info, additional_info, "report.html")>>
    /\ \E answer \in {"y", "n"}, opens \in BOOLEAN :
          stdout' = Append(stdout, ExportedLine("report.html"))
                      \o BrowserLines("report.html", answer, opens)
    /\ pc' = "reported"
    /\ UNCHANGED <<args, ip, ip_info, additional_info, response, columns, exitCode,
                   events, candidate, valid>>

NextReport == ReportTerminal \/ ReportHtml

SpecReport == InitReport /\ [][NextReport]_vars

(***************************************************************************)
(* The validator on its own: a candidate string is drawn, validate_ip is   *)
(* applied to it.                                                          *)
(***************************************************************************)
MaxIpLen == 7

\* the characters candidates are made of: decimal digits that make small,
\* octal-invalid and out-of-range numbers, the dot, and a letter (which is
\* also the hexadecimal marker)
IpAlphabet == {"0", "1", "9", ".", "x"}

RECURSIVE StringsOfLen(_)
StringsOfLen(n) ==
    IF n = 0 THEN {""}
    ELSE {s \o c : s \in StringsOfLen(n - 1), c \in IpAlphabet}

\* every string of at most `maxLen` characters of the alphabet
Candidates(maxLen) == UNION {StringsOfLen(n) : n \in 0..maxLen}

\* the variables the validator does not touch
Idle == <<args, ip, ip_info, additional_info, response, columns,
          exitCode, events, stdout, files>>

InitValidate ==
    /\ pc = "input"
    /\ candidate \in Candidates(MaxIpLen)
    /\ valid = FALSE
    /\ args = <<>> /\ ip = "" /\ ip_info = <<>> /\ additional_info = <<>>
    /\ response = <<>> /\ columns = 0 /\ exitCode = -1
    /\ events = <<>> /\ stdout = <<>> /\ files = <<>>

Validate ==
    /\ pc = "input"
    /\ valid' = validate_ip(candidate)
    /\ pc' = "validated"
    /\ UNCHANGED <<candidate, Idle>>

NextValidate == Validate

SpecValidate == InitValidate /\ [][NextValidate]_vars

(***************************************************************************)
(* The grammar of section 4.1: exactly four parts separated by three dots, *)
(* each part one to three decimal digits with a value in 0..255.           *)
(***************************************************************************)
RECURSIVE SplitDots(_, _, _)
\* s.split('.') from position i on, `cur` being the part read so far
SplitDots(s, i, cur) ==
    IF i > Len(s) THEN <<cur>>
    ELSE IF At(s, i) = "." THEN <<cur>> \o SplitDots(s, i + 1, "")
         ELSE SplitDots(s, i + 1, cur \o At(s, i))

RECURSIVE DecValue(_)
DecValue(p) == IF p = "" THEN 0 ELSE 10 * DecValue(SubSeq(p, 1, Len(p) - 1)) + DigitVal(At(p, Len(p)))

IsOctet(p) ==
    /\ Len(p) \in 1..3
    /\ \A i \in 1..Len(p) : At(p, i) \in DecDigits
    /\ DecValue(p) <= 255

IsDottedQuad(s) ==
    LET parts == SplitDots(s, 1, "")
    IN Len(parts) = 4 /\ \A i \in 1..4 : IsOctet(parts[i])

(***************************************************************************)
(* The claims.                                                             *)
(***************************************************************************)
\* positions of the events of one type and name
EventsOf(type, name) ==
    {i \in 1..Len(events) : events[i].type = type /\ events[i].name = name}

RequestsMade == {i \in 1..Len(events) : events[i].type = "request"}
RendersMade == {i \in 1..Len(events) : events[i].type = "render"}

PrintedKind(kind) == \E i \in 1..Len(stdout) : stdout[i].kind = kind
PrintedText(text) == \E i \in 1..Len(stdout) : stdout[i].text = text

\* C1: with a file format (json, csv, html) and no output path, main
\* reports a usage error and exits with a non-zero status, and no network
\* request is ever made, whatever the other arguments are.
C1_UsageErrorBeforeNetwork ==
    (args.format \in {"json", "csv", "html"} /\ args.output = PyNone) =>
        /\ RequestsMade = {}
        /\ pc \in {"start", "exited", "cancelled"}
        /\ pc = "exited" => exitCode # 0 /\ PrintedKind("fatal")

C1_Witness ==
    /\ pc = "exited"
    /\ args.format = "csv" /\ args.output = PyNone
    /\ args.detailed /\ args.ip = PyNone
    /\ exitCode = 1

\* C2: when the geolocation response has status fail, the run shows the
\* response's message and renders no record in any format: no box on the
\* terminal, no file written.
C2_FailRendersNoRecord ==
    (pc = "done" /\ Get(ip_info, "status") = PyStr("fail")) =>
        /\ PrintedText("Error: " \o ToStr(Get(ip_info, "message")))
        /\ ~PrintedKind("box")
        /\ files = <<>>

\* C5: no failure of the enrichment lookup leaves get_additional_info or
\* aborts the run: after it the run is at the renderer, and a run that
\* ends has called the selected renderer with the geolocation record.
C5_EnrichFailureDoesNotAbort ==
    (response # NoAnswer /\ EnrichFails(response)) =>
        /\ pc \in {"render", "done", "cancelled"}
        /\ ~PrintedKind("traceback")
        /\ additional_info.t = "dict"
        /\ pc = "done" =>
              \E i \in RendersMade :
                  /\ events[i].name = args.format
                  /\ events[i].arg = ToStr(Get(ip_info, "query"))

C5_Witness ==
    /\ pc = "done"
    /\ response.net = "ok" /\ response.parses
    /\ EnrichFails(response)
    /\ RendersMade # {}

\* C7: the exit status is 0 when the run completes or is cancelled, and
\* non-zero when the supplied IP is invalid, when a file format has no
\* output path, and when the public-IP or the geolocation service cannot
\* be reached.
C7_ExitStatus ==
    /\ pc = "done" => exitCode = 0
    /\ pc = "cancelled" => exitCode = 0
    /\ (pc \in {"done", "exited"} /\ Truthy(args.ip) /\ ~IsDottedQuad(args.ip.s))
          => exitCode # 0
    /\ (pc \in {"done", "exited"} /\ args.format # "terminal" /\ args.output = PyNone)
          => exitCode # 0
    /\ (pc \in {"done", "exited"}
        /\ \E i \in RequestsMade : events[i].name \in {"ipify", "ip-api"} /\ ~events[i].ok)
          => exitCode # 0

\* C8: the steps of a run come in the order resolve or validate the
\* address, geolocation request, enrichment request, render: at most one
\* request of each kind, the enrichment request only in detailed mode,
\* after an answered geolocation request whose record has a country code,
\* and exactly one renderer, after every request.
C8_StepOrder ==
    LET resolved == EventsOf("request", "ipify") \cup EventsOf("validate", "validate_ip")
        geo == EventsOf("request", "ip-api")
        enrich == EventsOf("request", "restcountries")
    IN /\ Cardinality(resolved) <= 1
       /\ Cardinality(geo) <= 1
       /\ Cardinality(enrich) <= 1
       /\ Cardinality(RendersMade) <= 1
       /\ \A g \in geo : \E r \in resolved : r < g /\ events[r].ok
       /\ \A e \in enrich :
             /\ args.detailed
             /\ \E g \in geo : g < e /\ events[g].ok
             /\ HasKey(ip_info, "countryCode")
       /\ \A r \in RendersMade :
             /\ r = Len(events)
             /\ \E g \in geo : g < r /\ events[g].ok
             /\ args.detailed => pc = "done" /\ additional_info.t = "dict"
       /\ pc = "done" <=> Cardinality(RendersMade) = 1

C8_Witness ==
    /\ pc = "done"
    /\ Len(events) = 4
    /\ events[1].name = "validate_ip"
    /\ events[2].name = "ip-api"
    /\ events[3].name = "restcountries"
    /\ events[4].type = "render"

\* a run in detailed mode whose record has no country code: no enrichment
\* request is made
C8_NoCodeNoRequest ==
    /\ pc = "done" /\ args.detailed
    /\ ~HasKey(ip_info, "countryCode")
    /\ EventsOf("request", "restcountries") = {}

\* C4: for a success record, every line of the box region that
\* display_ip_info prints has the same visible length, the computed width
\* min(80, terminal columns - 4).
C4_BoxLinesHaveWidth ==
    pc = "displayed" =>
        \A i \in 1..Len(stdout) :
            stdout[i].kind = "box" => Len(stdout[i].text) = Min(80, columns - 4)

\* C6: whenever the enrichment lookup fails, get_additional_info returns a
\* record with no fields at all.
C6_FailureReturnsNoFields ==
    (pc = "returned" /\ HasKey(ip_info, "countryCode") /\ EnrichFails(response)) =>
        additional_info = EmptyDict

\* a CSV reader, field by field.  The field starting at position i ends
\* before position FieldEnd: an unquoted field at the next delimiter or line
\* break, a quoted field after its closing quote (the first quote that
\* follows an even number of quotes and is not itself doubled)
IsQuote(text, k) == At(text, k) = "\""

ClosingQuote(text, i) ==
    LET closes(j) == /\ IsQuote(text, j)
                     /\ ~IsQuote(text, j + 1)
                     /\ Cardinality({k \in (i + 1)..(j - 1) : IsQuote(text, k)}) % 2 = 0
        js == {j \in (i + 1)..Len(text) : closes(j)}
    IN IF js = {} THEN Len(text) + 1
       ELSE CHOOSE j \in js : \A k \in js : j <= k

FieldEnd(text, i) ==
    IF IsQuote(text, i) THEN ClosingQuote(text, i) + 1
    ELSE LET js == {j \in i..Len(text) : At(text, j) \in {",", "\r", "\n"}}
         IN IF js = {} THEN Len(text) + 1
            ELSE CHOOSE j \in js : \A k \in js : j <= k

RECURSIVE Undouble(_)
\* the content of a quoted field, its doubled quotes single again
Undouble(cell) ==
    IF cell = "" THEN ""
    ELSE IF IsQuote(cell, 1) /\ IsQuote(cell, 2)
         THEN "\"" \o Undouble(SubSeq(cell, 3, Len(cell)))
         ELSE At(cell, 1) \o Undouble(SubSeq(cell, 2, Len(cell)))

FieldText(text, i) ==
    IF IsQuote(text, i) THEN Undouble(SubSeq(text, i + 1, FieldEnd(text, i) - 2))
    ELSE SubSeq(text, i, FieldEnd(text, i) - 1)

RECURSIVE ParseCsvFrom(_, _, _)
\* the records of `text` from the field at position i on, `row` being the
\* fields of the record read so far
ParseCsvFrom(text, i, row) ==
    IF i > Len(text) /\ row = <<>> THEN <<>>
    ELSE LET e == FieldEnd(text, i)
             fields == Append(row, FieldText(text, i))
         IN IF At(text, e) = "," THEN ParseCsvFrom(text, e + 1, fields)
            ELSE IF At(text, e) = "\r" /\ At(text, e + 1) = "\n"
                 THEN <<fields>> \o ParseCsvFrom(text, e + 2, <<>>)
            ELSE IF e > Len(text) THEN <<fields>>
            ELSE <<fields>> \o ParseCsvFrom(text, e + 1, <<>>)

ParseCsv(text) == ParseCsvFrom(text, 1, <<>>)

\* the cell of the data row under the header `name`
CsvCell(rows, name) == rows[2][CHOOSE i \in 1..Len(rows[1]) : rows[1][i] = name]

\* C9: export_to_csv writes exactly two rows, a header and one data row of
\* as many columns (one per field of the record, one per enrichment field,
\* one for the timestamp), the timestamp being the last column.
C9_CsvHeaderAndOneRow ==
    pc = "exported" =>
        LET rows == ParseCsv(files[1].content)
            n == Len(ip_info.m)
                 + (IF Truthy(additional_info) THEN Len(additional_info.m) ELSE 0) + 1
        IN /\ Len(rows) = 2
           /\ Len(rows[1]) = n
           /\ Len(rows[2]) = Len(rows[1])
           /\ rows[1][n] = "timestamp"
           /\ rows[2][n] = Now

C9_Witness ==
    /\ pc = "exported"
    /\ Get(ip_info, "isp") = PyStr("Acme, Inc.")
    /\ Truthy(additional_info)
    /\ HasKey(additional_info, "currencies") /\ HasKey(additional_info, "subregion")

\* the display name of a mapping's value: the name of a currency, the
\* language itself
DisplayName(v) == IF v.t = "dict" THEN ToStr(Get(v, "name")) ELSE ToStr(v)

\* C10: in export_to_csv every mapping-valued enrichment field (currencies
\* and languages alike) becomes one column additional_<field> holding the
\* entries as "key: value" pairs joined by ", ", in insertion order, the
\* value being the display name.
C10_MappingsAsKeyValuePairs ==
    (pc = "exported" /\ Truthy(additional_info)) =>
        \A k \in {"currencies", "languages"} :
            (HasKey(additional_info, k) /\ Item(additional_info, k).t = "dict") =>
                LET d == Item(additional_info, k)
                IN CsvCell(ParseCsv(files[1].content), "additional_" \o k)
                   = Join(", ", [i \in 1..Len(d.m) |->
                                   d.m[i][1] \o ": " \o DisplayName(d.m[i][2])])

\* the part of C10 the code does satisfy: the languages column
C10_LanguagesAsKeyValuePairs ==
    (pc = "exported" /\ Truthy(additional_info) /\ HasKey(additional_info, "languages")) =>
        LET d == Item(additional_info, "languages")
        IN CsvCell(ParseCsv(files[1].content), "additional_languages")
           = Join(", ", [i \in 1..Len(d.m) |-> d.m[i][1] \o ": " \o ToStr(d.m[i][2])])

\* C3: validate_ip returns true exactly for the syntactically valid IPv4
\* dotted-decimal addresses (four octets 0..255, three dots, nothing else)
\* and false for every other string.
C3_ValidateIsDottedQuad ==
    pc = "validated" => (valid <=> IsDottedQuad(candidate))

\* the part of C3 the code does satisfy: every dotted quad is accepted
C3_DottedQuadAccepted ==
    pc = "validated" /\ IsDottedQuad(candidate) => valid

\* the labels of the terminal's field rows and of the HTML table's rows,
\* each with the field of the record it shows
TerminalLabels ==
    << <<"Location:", "location">>, <<"Continent:", "continent">>,
       <<"District:", "district">>, <<"Coordinates:", "coordinates">>,
       <<"Postal Code:", "zip">>, <<"Timezone:", "timezone">>,
       <<"Time Offset:", "offset">>, <<"Using Proxy:", "proxy">>,
       <<"Hosting/DC:", "hosting">>, <<"Mobile Network:", "mobile">>,
       <<"Reverse DNS:", "reverse">>, <<"ISP:", "isp">>, <<"ORG:", "org">>,
       <<"AS: ", "as">>, <<"AS Name:", "asname">> >>

HtmlLabels ==
    << <<"IP Address", "query">>, <<"Location", "location">>,
       <<"Continent", "continent">>, <<"Coordinates", "coordinates">>,
       <<"Timezone", "timezone">>, <<"Using Proxy", "proxy">>,
       <<"Hosting/DC", "hosting">>, <<"Mobile Network", "mobile">>,
       <<"ISP", "isp">>, <<"Organization", "org">>, <<"AS", "as">> >>

StartsWith(text, prefix) ==
    Len(text) >= Len(prefix) /\ SubSeq(text, 1, Len(prefix)) = prefix

\* the field a printed line shows, "" when it is no field row: the banner
\* line shows the address, a box row the field of its label
FieldOfLine(line) ==
    IF line.kind = "header" /\ StartsWith(line.text, "  IP: ") THEN "query"
    ELSE IF line.kind # "box" THEN ""
    ELSE LET hits == {i \in 1..Len(TerminalLabels) :
                         StartsWith(line.text, "| " \o TerminalLabels[i][1] \o " ")}
         IN IF hits = {} THEN "" ELSE TerminalLabels[CHOOSE i \in hits : TRUE][2]

\* the fields the terminal shows, in the order of their rows
TerminalFields(lines) ==
    LET shown == SelectSeq(lines, LAMBDA l : FieldOfLine(l) # "")
    IN [i \in 1..Len(shown) |-> FieldOfLine(shown[i])]

\* the fields of the HTML table's rows, in order
HtmlFields(rows) ==
    [i \in 1..Len(rows) |->
        LET hits == {j \in 1..Len(HtmlLabels) : HtmlLabels[j][1] = rows[i][1]}
        IN IF hits = {} THEN rows[i][1] ELSE HtmlLabels[CHOOSE j \in hits : TRUE][2]]

\* C11: for every success record the main table export_to_html writes has
\* a row for exactly the fields display_ip_info prints a row for, in the
\* same order (the address, which the terminal shows in its banner, first).
C11_HtmlRowsAsTerminalRows ==
    pc = "reported" =>
        HtmlFields(files[1].content.info_rows) = TerminalFields(stdout)

\* the part of C11 the code does satisfy: every field of the HTML table is
\* a field the terminal shows
C11_HtmlRowsAmongTerminalRows ==
    pc = "reported" =>
        \A i \in 1..Len(files[1].content.info_rows) :
            \E j \in 1..Len(TerminalFields(stdout)) :
                TerminalFields(stdout)[j] = HtmlFields(files[1].content.info_rows)[i]

\* whether a box row with this label shows this value and nothing else
RowShows(text, label, value) ==
    LET p == "| " \o label \o " " \o value
    IN /\ StartsWith(text, p)
       /\ At(text, Len(text)) = "|"
       /\ \A i \in (Len(p) + 1)..(Len(text) - 1) : At(text, i) = " "

TerminalRowsOf(label) ==
    {i \in 1..Len(stdout) : stdout[i].kind = "box"
                            /\ StartsWith(stdout[i].text, "| " \o label \o " ")}

HtmlRowsOf(label) ==
    {i \in 1..Len(files[1].content.info_rows) : files[1].content.info_rows[i][1] = label}

\* C12: proxy, hosting and mobile are tri-state in display_ip_info and in
\* export_to_html: no row when the flag is absent, a row showing "Yes" when
\* it is true, a row showing "No" when it is false; and the terminal shows
\* a UTC offset of zero ("UTC +0") instead of leaving it out.
C12_FlagsAreTriState ==
    pc = "reported" =>
        /\ \A f \in {<<"proxy", "Using Proxy">>, <<"hosting", "Hosting/DC">>,
                     <<"mobile", "Mobile Network">>} :
              LET v == Get(ip_info, f[1])
                  expected == IF v = PyBool(TRUE) THEN "Yes" ELSE "No"
                  term == TerminalRowsOf(f[2] \o ":")
                  html == HtmlRowsOf(f[2])
              IN IF ~HasKey(ip_info, f[1])
                 THEN term = {} /\ html = {}
                 ELSE /\ Cardinality(term) = 1 /\ Cardinality(html) = 1
                      /\ \A i \in term : RowShows(stdout[i].text, f[2] \o ":", expected)
                      /\ \A i \in html : files[1].content.info_rows[i][2] = expected
        /\ Get(ip_info, "offset") = PyInt(0) =>
              \E i \in TerminalRowsOf("Time Offset:") :
                  RowShows(stdout[i].text, "Time Offset:", "UTC +0")
        /\ ~HasKey(ip_info, "offset") => TerminalRowsOf("Time Offset:") = {}

C12_Witness ==
    /\ pc = "reported"
    /\ Get(ip_info, "proxy") = PyBool(FALSE)
    /\ Get(ip_info, "hosting") = PyBool(TRUE)
    /\ ~HasKey(ip_info, "mobile")
    /\ Get(ip_info, "offset") = PyInt(0)
    /\ TerminalRowsOf("Using Proxy:") # {}
    /\ HtmlRowsOf("Using Proxy") # {}

\* the box lines of what was printed, and where its sections are
BoxLines == SelectSeq(stdout, LAMBDA l : l.kind = "box")

IsBorder(text) == StartsWith(text, "+")

HeadingsOf(title) ==
    {i \in 1..Len(BoxLines) : StartsWith(BoxLines[i].text, "| " \o title \o " ")}

\* the rows of the section whose first row would be line i: the lines from
\* i up to the next border
SectionRows(i) ==
    {j \in i..Len(BoxLines) : \A k \in i..j : ~IsBorder(BoxLines[k].text)}

\* a row that shows something: any row but a Location row with no value
ShowsField(text) == ~RowShows(text, "Location:", "")

\* C13: each section of the box (Location, Additional Information, Network
\* Information) is printed only if it has at least one field to show: a
\* heading is followed by at least one row, the Location block has a row
\* with a value, and the sections come in that order.
C13_SectionsOnlyWithFields ==
    pc = "displayed" /\ BoxLines # <<>> =>
        LET additional == HeadingsOf("Additional Information")
            network == HeadingsOf("Network Information")
        IN /\ \A h \in additional \cup network : SectionRows(h + 2) # {}
           /\ SectionRows(2) # {} =>
                 \E j \in SectionRows(2) : ShowsField(BoxLines[j].text)
           /\ Cardinality(additional) <= 1 /\ Cardinality(network) <= 1
           /\ \A a \in additional : \A j \in SectionRows(2) : j < a
           /\ \A n \in network :
                 /\ \A j \in SectionRows(2) : j < n
                 /\ \A a \in additional : a < n

\* the part of C13 the code does satisfy: the order of the sections
C13_SectionOrder ==
    pc = "displayed" /\ BoxLines # <<>> =>
        LET additional == HeadingsOf("Additional Information")
            network == HeadingsOf("Network Information")
        IN /\ Cardinality(additional) <= 1 /\ Cardinality(network) <= 1
           /\ \A a \in additional : \A j \in SectionRows(2) : j < a
           /\ \A n \in network :
                 /\ \A j \in SectionRows(2) : j < n
                 /\ \A a \in additional : a < n

\* the sub-fields of the provider's country object, each with the key it
\* is stored under
SubFields ==
    << <<"population", "population">>, <<"capital", "capital">>,
       <<"currencies", "currencies">>, <<"languages", "languages">>,
       <<"flags", "flag">>, <<"region", "region">>, <<"subregion", "subregion">> >>

\* the country object of an answer the lookup succeeds on
CountryOf(answer) == Index0(answer.data)

LookupSucceeds(answer) ==
    /\ answer.net = "ok" /\ answer.parses
    /\ Truthy(answer.data) /\ answer.data.t = "list"
    /\ ~EnrichFails(answer)

\* C14: when the lookup succeeds, every sub-field missing from the
\* provider's response is absent from the record get_additional_info
\* returns, and no sub-field is held as an empty or null placeholder.
C14_MissingSubFieldsAbsent ==
    (pc = "returned" /\ HasKey(ip_info, "countryCode") /\ LookupSucceeds(response)) =>
        \A i \in 1..Len(SubFields) :
            ~HasKey(CountryOf(response), SubFields[i][1]) =>
                ~HasKey(additional_info, SubFields[i][2])

\* the part of C14 the code does satisfy: a sub-field the response has is
\* returned with the response's value
C14_PresentSubFieldsKept ==
    (pc = "returned" /\ HasKey(ip_info, "countryCode") /\ LookupSucceeds(response)) =>
        \A k \in {"population", "currencies", "languages", "region", "subregion"} :
            HasKey(CountryOf(response), k) =>
                Get(additional_info, k) = Item(CountryOf(response), k)

C16_OnlyValidatedIpIsSent ==
    \A g \in EventsOf("request", "ip-api") :
        IF args.ip \in {PyNone, PyStr("")}
        THEN /\ events[g].arg \in PublicIpBodies
             /\ EventsOf("validate", "validate_ip") = {}
             /\ \E r \in EventsOf("request", "ipify") : r < g /\ events[r].ok
        ELSE /\ events[g].arg = args.ip.s
             /\ EventsOf("request", "ipify") = {}
             /\ \E v \in EventsOf("validate", "validate_ip") :
                   v < g /\ events[v].arg = args.ip.s /\ events[v].ok

C16_Witness ==
    /\ pc = "done"
    /\ args.ip = PyStr("")
    /\ \E g \in EventsOf("request", "ip-api") : events[g].arg = "203.0.113.7"

====
